---- MODULE Spec2Model ----
(***************************************************************************)
(* A model of nova::non_null, nova::non_null_function and                  *)
(* nova::non_null_move_only_function (include/nova/non_null.hpp).          *)
(*                                                                         *)
(* A program owns a few wrapper objects (slots of Wrappers) and a few      *)
(* plain variables of the wrapped type (slots of Reps: a T*, a             *)
(* std::unique_ptr, a std::shared_ptr, a std::function, a                  *)
(* std::move_only_function).  Every member function and every free         *)
(* function of the header is one action.                                   *)
(***************************************************************************)
EXTENDS Integers, FiniteSets, Sequences, TLC

\* ---------------------------------------------------------------- bounds
NumWrappers == 2
NumReps     == 1
NumStatic   == 2
NumHeap     == 2

\* nullptr, and the empty state of a callable storage
Null == 0

Wrappers   == 1 .. NumWrappers
Reps       == 1 .. NumReps
StaticAddr == 1 .. NumStatic
HeapAddr   == (NumStatic + 1) .. (NumStatic + NumHeap)
Addr       == StaticAddr \cup HeapAddr

\* The wrappers never read what they point to or what they call, so two
\* distinguishable samples of each stand for all: the pointee values 42 and
\* 7 (tests/test_non_null.cpp), and the callables x -> 2x and x -> 3x
\* (tests/test_non_null_function.cpp), each named by its factor.
Values    == {42, 7}
Callables == {2, 3}

\* the instantiations of the three class templates
PtrKinds == {"Raw", "Shared", "Unique"}
FnKinds  == {"Function", "MoveOnlyFunction"}
Kinds    == PtrKinds \cup FnKinds

VARIABLES
    T,          \* the instantiation the program uses (the template argument)
    build,      \* "checked" (assert active) or "unchecked" (NDEBUG), or
                \* "either" while no check has failed yet
    aborted,    \* an assert has failed, or the process has trapped
    ub,         \* undefined behaviour has been executed
    wstate,     \* wrapper slot: "none", "live", or "taken" (passed to take())
    ptr_,       \* non_null::ptr_
    fn_,        \* non_null_function::fn_ / non_null_move_only_function::fn_
    rep,        \* plain variables of the wrapped type
    mem,        \* heap cells: owner kind, stored value, shared use count
    last        \* the operation that produced this state, and the record
                \* of the call or expression in progress

vars == <<T, build, aborted, ub, wstate, ptr_, fn_, rep, mem, last>>

NoRep    == [held |-> FALSE, val |-> Null]
FreeCell == [owner |-> "free", val |-> 0, use_count |-> 0]

\* a swap has started and not yet returned
InCall_Never == FALSE
InCall == last.op \in {"swap_enter", "swap_store"}

\* no assert has failed, nothing undefined has run, and no call is half done
Running == ~aborted /\ ~ub /\ ~InCall

\* ------------------------------------------------- wrapped representations
\* value of the object a raw pointer designates (objects a test declares)
StaticVal(a) == IF a % 2 = 1 THEN 42 ELSE 7

\* *p for a non-null p; 0 stands for a released object
Deref(m, a) == IF a \in StaticAddr THEN StaticVal(a) ELSE m[a].val

\* the result of calling the callable c with the argument x
Invoke(c, x) == c * x

\* std::shared_ptr copy: one more owner of the control block
SharedCopy_NoCount(m, a) == m
SharedCopy(m, a) ==
    IF a = Null THEN m ELSE [m EXCEPT ![a].use_count = @ + 1]

\* std::shared_ptr destructor: one owner less, the last one deletes
SharedRelease(m, a) ==
    IF a = Null THEN m
    ELSE IF m[a].use_count = 1 THEN [m EXCEPT ![a] = FreeCell]
    ELSE [m EXCEPT ![a].use_count = @ - 1]

\* std::unique_ptr destructor
UniqueRelease(m, a) ==
    IF a = Null THEN m ELSE [m EXCEPT ![a] = FreeCell]

\* copy construction of a T
CopyRepr(m, k, a) == IF k = "Shared" THEN SharedCopy(m, a) ELSE m

\* destruction of a T
DestroyRepr(m, k, a) ==
    CASE k = "Shared" -> SharedRelease(m, a)
      [] k = "Unique" -> UniqueRelease(m, a)
      [] OTHER        -> m

\* what a T holds after it has been moved from: a raw pointer keeps its
\* address, smart pointers are null, callable storages are unspecified
MovedFrom_Keeps(k, v) == {v}
MovedFrom(k, v) ==
    CASE k = "Raw"                  -> {v}
      [] k \in {"Shared", "Unique"} -> {Null}
      [] OTHER                      -> {Null, v}

\* shared_ptr::use_count()
UseCountOf(m, a) == IF a = Null THEN 0 ELSE m[a].use_count

\* ---------------------------------------------------------------- helpers
copyable_pointer_Always(k) == TRUE
copyable_pointer(k) == k \in {"Raw", "Shared"}

assume_nonnull(p) == IF p # Null THEN "ok" ELSE "violated"

assume_not_empty_None(f) == "ok"
assume_not_empty(f) == IF f # Null THEN "ok" ELSE "violated"

Stored(w) == IF T \in PtrKinds THEN ptr_[w] ELSE fn_[w]

\* The record of a call or expression: the wrapper w, the variable r, a
\* value v and an address a.  For the expression
\* non_null( take( make_non_null_unique< T >( v ) ) ) in progress: step 1
\* after the factory made wrapper w over the address a holding v, 2 after
\* take( w ) returned into r, 3 after r has been wrapped again in w.
NoTrip == [step |-> 0, w |-> 0, r |-> 0, v |-> 0, a |-> 0]

LogTrip(op, trip) == last' = [op |-> op, trip |-> trip]

Log(op) == LogTrip(op, NoTrip)

\* the wrapper object w comes into existence holding v
Hold_Null(w, v) ==
    /\ wstate' = [wstate EXCEPT ![w] = "live"]
    /\ UNCHANGED <<ptr_, fn_>>
Hold(w, v) ==
    /\ wstate' = [wstate EXCEPT ![w] = "live"]
    /\ IF T \in PtrKinds
       THEN ptr_' = [ptr_ EXCEPT ![w] = v] /\ UNCHANGED fn_
       ELSE fn_' = [fn_ EXCEPT ![w] = v] /\ UNCHANGED ptr_

NoWrapperChange == UNCHANGED <<wstate, ptr_, fn_>>

\* The outcome of a contract check, assert( e ) followed by NOVA_ASSUME( e ).
\* Both builds run the same while e holds.  When e is false, the checked
\* build aborts in the assert; in the unchecked build the assert is compiled
\* out and the false assumption is undefined behaviour: the program either
\* continues with what it has or traps.  The program stops at the first
\* failed check, so the build shows there and nowhere else.
Builds == {"checked", "unchecked"}

Outcome(check, Continue, Stop) ==
    IF check = "ok"
    THEN Continue /\ UNCHANGED <<build, aborted, ub>>
    ELSE \E b \in Builds :
           /\ build \in {"either", b}
           /\ build' = b
           /\ IF b = "checked"
              THEN Stop /\ aborted' = TRUE /\ UNCHANGED ub
              ELSE /\ ub' = TRUE
                   /\ \/ Continue /\ UNCHANGED aborted
                      \/ Stop /\ aborted' = TRUE

\* ------------------------------------------------------------ environment
\* a variable of the wrapped type is declared: a raw pointer to an object
\* or nullptr, a null smart pointer or an empty callable storage, a fresh
\* std::make_unique / std::make_shared resource, or a stored callable
NewRep(r, x) ==
    /\ Running
    /\ ~rep[r].held
    /\ \/ /\ x = Null
          /\ rep' = [rep EXCEPT ![r] = [held |-> TRUE, val |-> Null]]
          /\ UNCHANGED mem
       \/ /\ T = "Raw"
          /\ x \in StaticAddr
          /\ rep' = [rep EXCEPT ![r] = [held |-> TRUE, val |-> x]]
          /\ UNCHANGED mem
       \/ /\ T \in FnKinds
          /\ x \in Callables
          /\ rep' = [rep EXCEPT ![r] = [held |-> TRUE, val |-> x]]
          /\ UNCHANGED mem
       \/ /\ T \in {"Shared", "Unique"}
          /\ x \in Values
          /\ \E a \in HeapAddr :
               /\ mem[a].owner = "free"
               /\ mem' = [mem EXCEPT ![a] = [owner |-> T, val |-> x,
                              use_count |-> IF T = "Shared" THEN 1 ELSE 0]]
               /\ rep' = [rep EXCEPT ![r] = [held |-> TRUE, val |-> a]]
    /\ Log("new_rep")
    /\ UNCHANGED <<T, build, aborted, ub, wstate, ptr_, fn_>>

\* a variable of the wrapped type goes out of scope
DestroyRep(r) ==
    /\ Running
    /\ rep[r].held
    /\ rep' = [rep EXCEPT ![r] = NoRep]
    /\ mem' = DestroyRepr(mem, T, rep[r].val)
    /\ Log("destroy_rep")
    /\ UNCHANGED <<T, build, aborted, ub, wstate, ptr_, fn_>>

\* the argument of a constructor: an lvalue is copied and stays, an rvalue
\* is moved from and its lifetime ends with the full expression
PassArgument(r, rv) ==
    IF rv
    THEN rep' = [rep EXCEPT ![r] = NoRep] /\ UNCHANGED mem
    ELSE mem' = CopyRepr(mem, T, rep[r].val) /\ UNCHANGED rep

\* ------------------------------------------------------------ non_null<T>
ConstructorCheck_None(p) == "ok"
ConstructorCheck(p) ==
    IF p = Null THEN "violated" ELSE assume_nonnull(p)

\* non_null( U&& p ): from an lvalue (rv = FALSE) or an rvalue (rv = TRUE)
Construct(w, r, rv) ==
    /\ Running
    /\ T \in PtrKinds
    /\ wstate[w] = "none"
    /\ rep[r].held
    /\ rv \/ copyable_pointer(T)
    /\ PassArgument(r, rv)
    /\ Outcome(ConstructorCheck(rep[r].val), Hold(w, rep[r].val), NoWrapperChange)
    /\ LogTrip("construct",
               IF rv /\ last.trip.step = 2 /\ last.trip.r = r
               THEN [last.trip EXCEPT !.step = 3, !.w = w] ELSE NoTrip)
    /\ UNCHANGED T

\* non_null( const non_null< U >& other ): ptr_( other.underlying() )
ConvertConstruct(w, g) ==
    /\ Running
    /\ T \in PtrKinds
    /\ copyable_pointer(T)
    /\ wstate[w] = "none"
    /\ wstate[g] = "live"
    /\ Outcome(assume_nonnull(ptr_[g]),
               Hold(w, ptr_[g]) /\ mem' = CopyRepr(mem, T, ptr_[g]),
               NoWrapperChange /\ UNCHANGED mem)
    /\ Log("convert_construct")
    /\ UNCHANGED <<T, rep>>

\* non_null( const non_null& ) = default
CopyConstruct(w, g) ==
    /\ Running
    /\ T \in {"Raw", "Shared"}
    /\ wstate[w] = "none"
    /\ wstate[g] = "live"
    /\ Hold(w, ptr_[g])
    /\ mem' = CopyRepr(mem, T, ptr_[g])
    /\ Log("copy_construct")
    /\ UNCHANGED <<T, build, aborted, ub, rep>>

\* non_null& operator=( const non_null& ) = default
CopyAssign(w, g) ==
    /\ Running
    /\ T \in {"Raw", "Shared"}
    /\ wstate[w] = "live"
    /\ wstate[g] = "live"
    /\ ptr_' = [ptr_ EXCEPT ![w] = ptr_[g]]
    /\ mem' = DestroyRepr(CopyRepr(mem, T, ptr_[g]), T, ptr_[w])
    /\ Log("copy_assign")
    /\ UNCHANGED <<T, build, aborted, ub, rep, wstate, fn_>>

\* non_null( non_null&& other ) requires copyable_pointer< T >:
\* ptr_( std::move( other.ptr_ ) )
MoveConstruct(w, g) ==
    /\ Running
    /\ T \in PtrKinds
    /\ copyable_pointer(T)
    /\ wstate[w] = "none"
    /\ wstate[g] = "live"
    /\ \E left \in MovedFrom(T, ptr_[g]) :
         /\ wstate' = [wstate EXCEPT ![w] = "live"]
         /\ ptr_' = [ptr_ EXCEPT ![w] = ptr_[g], ![g] = left]
    /\ Log("move_construct")
    /\ UNCHANGED <<T, build, aborted, ub, rep, mem, fn_>>

\* non_null& operator=( non_null&& other ) requires copyable_pointer< T >:
\* ptr_ = std::move( other.ptr_ )
MoveAssign(w, g) ==
    /\ Running
    /\ T \in PtrKinds
    /\ copyable_pointer(T)
    /\ wstate[w] = "live"
    /\ wstate[g] = "live"
    /\ IF w = g
       THEN UNCHANGED <<ptr_, mem>>
       ELSE \E left \in MovedFrom(T, ptr_[g]) :
              /\ ptr_' = [ptr_ EXCEPT ![w] = ptr_[g], ![g] = left]
              /\ mem' = DestroyRepr(mem, T, ptr_[w])
    /\ Log("move_assign")
    /\ UNCHANGED <<T, build, aborted, ub, rep, wstate, fn_>>

\* friend T take( non_null&& nn ): return std::move( nn.ptr_ ), where
\* left is what the moved-from nn.ptr_ holds afterwards
TakeResult_MovedFrom(w, left) == left
TakeResult(w, left) == ptr_[w]

Take(w, r) ==
    /\ Running
    /\ T \in PtrKinds
    /\ wstate[w] = "live"
    /\ ~rep[r].held
    /\ \E left \in MovedFrom(T, ptr_[w]) :
         /\ rep' = [rep EXCEPT ![r] = [held |-> TRUE, val |-> TakeResult(w, left)]]
         /\ ptr_' = [ptr_ EXCEPT ![w] = left]
    /\ wstate' = [wstate EXCEPT ![w] = "taken"]
    /\ LogTrip("take",
               IF last.trip.step = 1 /\ last.trip.w = w
               THEN [last.trip EXCEPT !.step = 2, !.r = r] ELSE NoTrip)
    /\ UNCHANGED <<T, build, aborted, ub, mem, fn_>>

\* void swap( non_null& other ), and the free swap that calls it
Swap_KeepTemp(w, g) ==
    /\ Running
    /\ T \in PtrKinds
    /\ wstate[w] = "live"
    /\ wstate[g] = "live"
    /\ ptr_' = [ptr_ EXCEPT ![w] = ptr_[g], ![g] = ptr_[w]]
    /\ mem' = CopyRepr(mem, T, ptr_[w])
    /\ Log("swap")
    /\ UNCHANGED <<T, build, aborted, ub, rep, wstate, fn_>>
Swap(w, g) ==
    /\ Running
    /\ T \in PtrKinds
    /\ wstate[w] = "live"
    /\ wstate[g] = "live"
    /\ ptr_' = [ptr_ EXCEPT ![w] = ptr_[g], ![g] = ptr_[w]]
    /\ Log("swap")
    /\ UNCHANGED <<T, build, aborted, ub, rep, mem, wstate, fn_>>

\* The same swap( ptr_, other.ptr_ ) one store at a time.  std::swap of two
\* raw pointers, and the member swap of std::unique_ptr / std::shared_ptr
\* that std::swap calls, exchange the stored pointers through a temporary:
\* tmp = a; a = b; b = tmp.  Nothing else of the program runs in between.
\* The call record keeps the two handles, what the second held on entry (v)
\* and the temporary (a).
SwapEnter(w, g) ==
    /\ Running
    /\ T \in PtrKinds
    /\ wstate[w] = "live"
    /\ wstate[g] = "live"
    /\ LogTrip("swap_enter",
               [step |-> 0, w |-> w, r |-> g, v |-> ptr_[g], a |-> ptr_[w]])
    /\ UNCHANGED <<T, build, aborted, ub, rep, mem, wstate, ptr_, fn_>>

SwapStore ==
    /\ last.op = "swap_enter"
    /\ ptr_' = [ptr_ EXCEPT ![last.trip.w] = ptr_[last.trip.r]]
    /\ LogTrip("swap_store", last.trip)
    /\ UNCHANGED <<T, build, aborted, ub, rep, mem, wstate, fn_>>

SwapLeave ==
    /\ last.op = "swap_store"
    /\ ptr_' = [ptr_ EXCEPT ![last.trip.r] = last.trip.a]
    /\ LogTrip("swap", last.trip)
    /\ UNCHANGED <<T, build, aborted, ub, rep, mem, wstate, fn_>>

\* pointer get() const: assume_nonnull( ptr_ ), then the address
Get(w) ==
    /\ Running
    /\ T \in PtrKinds
    /\ wstate[w] = "live"
    /\ Outcome(assume_nonnull(ptr_[w]), TRUE, TRUE)
    /\ Log("get")
    /\ UNCHANGED <<T, rep, mem, wstate, ptr_, fn_>>

\* the address get() returns: ptr_ itself, or ptr_.get() of a smart pointer
get_Zero(w) == Null
get(w) == ptr_[w]

\* operator*(): *ptr_
operator_star(w) == Deref(mem, ptr_[w])

\* operator==( const non_null& lhs, const U& rhs ) with a bare pointer rhs:
\* lhs.get() == rhs
operator_eq_ptr(w, q) == get(w) = q

\* what the two calls of get() in a comparison of w with g run into
BothNonNull(w, g) ==
    IF ptr_[w] = Null THEN assume_nonnull(ptr_[w]) ELSE assume_nonnull(ptr_[g])

\* operator==( const non_null& lhs, const non_null< U >& rhs )
operator_eq(w, g) == get(w) = get(g)

\* operator<=>( const non_null& lhs, const non_null< U >& rhs ): the built-in
\* comparison of the two addresses
operator_spaceship_Equal(w, g) == "equal"
operator_spaceship(w, g) ==
    IF get(w) < get(g) THEN "less"
    ELSE IF get(w) > get(g) THEN "greater" ELSE "equal"

\* a comparison of two wrappers is evaluated
Compare(w, g) ==
    /\ Running
    /\ T \in PtrKinds
    /\ wstate[w] = "live"
    /\ wstate[g] = "live"
    /\ Outcome(BothNonNull(w, g), TRUE, TRUE)
    /\ Log("compare")
    /\ UNCHANGED <<T, rep, mem, wstate, ptr_, fn_>>

\* the control block a std::shared_ptr owns: one per allocation, which
\* std::make_shared places with the object; an empty pointer owns none
owner(w) == ptr_[w]

\* bool owner_before( const non_null< std::shared_ptr< Y > >& other ):
\* ptr_.owner_before( other.underlying() ), the order of the control blocks
owner_before_ByValue(w, g) == Deref(mem, ptr_[w]) < Deref(mem, ptr_[g])
owner_before(w, g) == owner(w) < owner(g)

\* an owner-based comparison is evaluated; other.underlying() checks other
OwnerBefore(w, g) ==
    /\ Running
    /\ T = "Shared"
    /\ wstate[w] = "live"
    /\ wstate[g] = "live"
    /\ Outcome(assume_nonnull(ptr_[g]), TRUE, TRUE)
    /\ Log("owner_before")
    /\ UNCHANGED <<T, rep, mem, wstate, ptr_, fn_>>

\* explicit operator bool() const: return true
operator_bool(w) == TRUE

\* operator==( const non_null& lhs, const U& rhs ) with U = std::nullptr_t
\* (and nullptr == lhs, lhs != nullptr, which the compiler rewrites to it):
\* return false
operator_eq_nullptr_Stored(w) == ptr_[w] = Null
operator_eq_nullptr(w) == FALSE

\* a wrapper is tested against nullptr or converted to bool
NullCompare(w) ==
    /\ Running
    /\ T \in PtrKinds
    /\ wstate[w] = "live"
    /\ Log("null_compare")
    /\ UNCHANGED <<T, build, aborted, ub, rep, mem, wstate, ptr_, fn_>>

\* the wrapper goes out of scope: the destructor of ptr_ / fn_ runs
Destroy(w) ==
    /\ Running
    /\ wstate[w] \in {"live", "taken"}
    /\ mem' = DestroyRepr(mem, T, ptr_[w])
    /\ wstate' = [wstate EXCEPT ![w] = "none"]
    /\ ptr_' = [ptr_ EXCEPT ![w] = Null]
    /\ fn_' = [fn_ EXCEPT ![w] = Null]
    /\ Log("destroy")
    /\ UNCHANGED <<T, build, aborted, ub, rep>>

\* try_make_non_null( T&& p ): std::nullopt for a null p, otherwise the
\* wrapper constructed in place from the forwarded p
NullTest_Never(p) == FALSE
NullTest(p) == p = Null

TryMakeNonNull(w, r, rv) ==
    /\ Running
    /\ T \in PtrKinds
    /\ wstate[w] = "none"
    /\ rep[r].held
    /\ rv \/ copyable_pointer(T)
    /\ IF NullTest(rep[r].val)
       THEN /\ Log("try_make_non_null")
            /\ UNCHANGED <<build, aborted, ub, rep, mem, wstate, ptr_, fn_>>
       ELSE /\ PassArgument(r, rv)
            /\ Outcome(ConstructorCheck(rep[r].val), Hold(w, rep[r].val),
                       NoWrapperChange)
            /\ Log("try_make_non_null")
    /\ UNCHANGED T

\* make_non_null_unique / make_non_null_shared:
\* non_null( std::make_unique< T >( args ) )
MakeNonNull(w, k, v) ==
    /\ Running
    /\ T = k
    /\ wstate[w] = "none"
    /\ \E a \in HeapAddr :
         /\ mem[a].owner = "free"
         /\ mem' = [mem EXCEPT ![a] = [owner |-> k, val |-> v,
                        use_count |-> IF k = "Shared" THEN 1 ELSE 0]]
         /\ Outcome(ConstructorCheck(a), Hold(w, a), NoWrapperChange)
         /\ LogTrip("make_non_null",
                    IF k = "Unique"
                    THEN [step |-> 1, w |-> w, r |-> 0, v |-> v, a |-> a]
                    ELSE NoTrip)
    /\ UNCHANGED <<T, rep>>

MakeNonNullUnique(w, v) == MakeNonNull(w, "Unique", v)

MakeNonNullShared(w, v) == MakeNonNull(w, "Shared", v)

\* ------------------------------------------------- non_null_function<Sig>
\* non_null_function( F&& f ): fn_( std::forward< F >( f ) ), then
\* assume_not_empty( fn_ )
ConstructFn(w, r, rv) ==
    /\ Running
    /\ T = "Function"
    /\ wstate[w] = "none"
    /\ rep[r].held
    /\ PassArgument(r, rv)
    /\ Outcome(assume_not_empty(rep[r].val), Hold(w, rep[r].val), NoWrapperChange)
    /\ LogTrip("construct",
               IF rv /\ last.trip.step = 4 /\ last.trip.r = r
               THEN [last.trip EXCEPT !.step = 5, !.w = w] ELSE NoTrip)
    /\ UNCHANGED T

\* non_null_function( const non_null_function& ) = default
CopyConstructFn(w, g) ==
    /\ Running
    /\ T = "Function"
    /\ wstate[w] = "none"
    /\ wstate[g] = "live"
    /\ Hold(w, fn_[g])
    /\ Log("copy_construct")
    /\ UNCHANGED <<T, build, aborted, ub, rep, mem>>

\* non_null_function& operator=( const non_null_function& ) = default
CopyAssignFn(w, g) ==
    /\ Running
    /\ T = "Function"
    /\ wstate[w] = "live"
    /\ wstate[g] = "live"
    /\ fn_' = [fn_ EXCEPT ![w] = fn_[g]]
    /\ Log("copy_assign")
    /\ UNCHANGED <<T, build, aborted, ub, rep, mem, wstate, ptr_>>

\* what other.fn_ holds after function_type { other.fn_ } copied it
CopiedFrom_Moved(f) == Null
CopiedFrom(f) == f

\* non_null_function( non_null_function&& other ):
\* fn_ { function_type { other.fn_ } }, then assume_not_empty( fn_ )
MoveConstructFn(w, g) ==
    /\ Running
    /\ T = "Function"
    /\ wstate[w] = "none"
    /\ wstate[g] = "live"
    /\ Outcome(assume_not_empty(fn_[g]),
               /\ wstate' = [wstate EXCEPT ![w] = "live"]
               /\ fn_' = [fn_ EXCEPT ![g] = CopiedFrom(fn_[g]), ![w] = fn_[g]]
               /\ UNCHANGED ptr_,
               NoWrapperChange)
    /\ Log("move_construct")
    /\ UNCHANGED <<T, rep, mem>>

\* non_null_function& operator=( non_null_function&& other ):
\* fn_ = function_type { other.fn_ }, then assume_not_empty( fn_ )
MoveAssignFn(w, g) ==
    /\ Running
    /\ T = "Function"
    /\ wstate[w] = "live"
    /\ wstate[g] = "live"
    /\ Outcome(assume_not_empty(fn_[g]),
               fn_' = [fn_ EXCEPT ![g] = CopiedFrom(fn_[g]), ![w] = fn_[g]],
               fn_' = [fn_ EXCEPT ![g] = CopiedFrom(fn_[g]), ![w] = fn_[g]])
    /\ Log("move_assign")
    /\ UNCHANGED <<T, rep, mem, wstate, ptr_>>

\* void swap( non_null_function& other ): fn_.swap( other.fn_ )
SwapFn(w, g) ==
    /\ Running
    /\ T = "Function"
    /\ wstate[w] = "live"
    /\ wstate[g] = "live"
    /\ fn_' = [fn_ EXCEPT ![w] = fn_[g], ![g] = fn_[w]]
    /\ Log("swap")
    /\ UNCHANGED <<T, build, aborted, ub, rep, mem, wstate, ptr_>>

\* what take() of a callable wrapper returns: the callable fn_ held, where
\* left is what the moved-from fn_ holds afterwards
take_fn_MovedFrom(w, left) == left
take_fn(w, left) == fn_[w]

\* friend function_type take( non_null_function&& nn ):
\* return std::move( nn.fn_ ).  The call record follows the expression
\* non_null_function( take( std::move( w ) ) ): step 4 after take returned
\* the callable v into r, step 5 after r has been wrapped again in w
TakeFn(w, r) ==
    /\ Running
    /\ T = "Function"
    /\ wstate[w] = "live"
    /\ ~rep[r].held
    /\ \E left \in MovedFrom(T, fn_[w]) :
         /\ rep' = [rep EXCEPT ![r] = [held |-> TRUE, val |-> take_fn(w, left)]]
         /\ fn_' = [fn_ EXCEPT ![w] = left]
    /\ wstate' = [wstate EXCEPT ![w] = "taken"]
    /\ LogTrip("take", [step |-> 4, w |-> w, r |-> r, v |-> fn_[w], a |-> 0])
    /\ UNCHANGED <<T, build, aborted, ub, mem, ptr_>>

\* --------------------------------------- non_null_move_only_function<Sig>
\* non_null_move_only_function( F&& f ): a std::move_only_function can only
\* be passed as an rvalue
ConstructMoFn(w, r) ==
    /\ Running
    /\ T = "MoveOnlyFunction"
    /\ wstate[w] = "none"
    /\ rep[r].held
    /\ PassArgument(r, TRUE)
    /\ Outcome(assume_not_empty(rep[r].val), Hold(w, rep[r].val), NoWrapperChange)
    /\ LogTrip("construct",
               IF last.trip.step = 4 /\ last.trip.r = r
               THEN [last.trip EXCEPT !.step = 5, !.w = w] ELSE NoTrip)
    /\ UNCHANGED T

\* void swap( non_null_move_only_function& other ): fn_.swap( other.fn_ )
SwapMoFn(w, g) ==
    /\ Running
    /\ T = "MoveOnlyFunction"
    /\ wstate[w] = "live"
    /\ wstate[g] = "live"
    /\ fn_' = [fn_ EXCEPT ![w] = fn_[g], ![g] = fn_[w]]
    /\ Log("swap")
    /\ UNCHANGED <<T, build, aborted, ub, rep, mem, wstate, ptr_>>

\* friend function_type take( non_null_move_only_function&& nn ):
\* return std::move( nn.fn_ )
TakeMoFn(w, r) ==
    /\ Running
    /\ T = "MoveOnlyFunction"
    /\ wstate[w] = "live"
    /\ ~rep[r].held
    /\ \E left \in MovedFrom(T, fn_[w]) :
         /\ rep' = [rep EXCEPT ![r] = [held |-> TRUE, val |-> take_fn(w, left)]]
         /\ fn_' = [fn_ EXCEPT ![w] = left]
    /\ wstate' = [wstate EXCEPT ![w] = "taken"]
    /\ LogTrip("take", [step |-> 4, w |-> w, r |-> r, v |-> fn_[w], a |-> 0])
    /\ UNCHANGED <<T, build, aborted, ub, mem, ptr_>>

\* ------------------------------------------------------------- invocation
\* the outcome std::function::operator() reports for an empty target
BadFunctionCall == -1

\* fn_( args ): the result of the stored callable, and how many times its
\* body (its side effects) ran
operator_call_Empty(f, x) == BadFunctionCall
operator_call(f, x) == IF f = Null THEN BadFunctionCall ELSE Invoke(f, x)

Ran(f) == IF f = Null THEN 0 ELSE 1

\* R operator()( CallArgs&&... args ) const of both callable wrappers:
\* assume_not_empty( fn_ ), then return fn_( args ).  The call record keeps
\* the wrapper (w), the argument (a), the result (v) and the number of runs
\* of the callable's body (r).
InvokeFn(w, x) ==
    /\ Running
    /\ T \in FnKinds
    /\ wstate[w] = "live"
    /\ Outcome(assume_not_empty(fn_[w]), TRUE, TRUE)
    /\ LogTrip("invoke", [step |-> 0, w |-> w, r |-> Ran(fn_[w]),
                          v |-> operator_call(fn_[w], x), a |-> x])
    /\ UNCHANGED <<T, rep, mem, wstate, ptr_, fn_>>

\* ------------------------------------------------------------- the program
Init ==
    /\ T \in Kinds
    /\ build = "either"
    /\ aborted = FALSE
    /\ ub = FALSE
    /\ wstate = [w \in Wrappers |-> "none"]
    /\ ptr_ = [w \in Wrappers |-> Null]
    /\ fn_ = [w \in Wrappers |-> Null]
    /\ rep = [r \in Reps |-> NoRep]
    /\ mem = [a \in HeapAddr |-> FreeCell]
    /\ last = [op |-> "init", trip |-> NoTrip]

Next ==
    \/ \E r \in Reps, x \in {Null} \cup Addr \cup Values \cup Callables :
         NewRep(r, x)
    \/ \E r \in Reps : DestroyRep(r)
    \/ \E w \in Wrappers, r \in Reps, rv \in BOOLEAN : Construct(w, r, rv)
    \/ \E w, g \in Wrappers : ConvertConstruct(w, g)
    \/ \E w, g \in Wrappers : CopyConstruct(w, g)
    \/ \E w, g \in Wrappers : CopyAssign(w, g)
    \/ \E w, g \in Wrappers : MoveConstruct(w, g)
    \/ \E w, g \in Wrappers : MoveAssign(w, g)
    \/ \E w \in Wrappers, r \in Reps : Take(w, r)
    \/ \E w, g \in Wrappers : Swap(w, g)
    \/ \E w \in Wrappers : Get(w)
    \/ \E w \in Wrappers : Destroy(w)
    \/ \E w \in Wrappers, r \in Reps, rv \in BOOLEAN : TryMakeNonNull(w, r, rv)
    \/ \E w \in Wrappers, v \in Values : MakeNonNullUnique(w, v)
    \/ \E w \in Wrappers, v \in Values : MakeNonNullShared(w, v)
    \/ \E w \in Wrappers, r \in Reps, rv \in BOOLEAN : ConstructFn(w, r, rv)
    \/ \E w, g \in Wrappers : CopyConstructFn(w, g)
    \/ \E w, g \in Wrappers : CopyAssignFn(w, g)
    \/ \E w, g \in Wrappers : MoveConstructFn(w, g)
    \/ \E w, g \in Wrappers : MoveAssignFn(w, g)
    \/ \E w, g \in Wrappers : SwapFn(w, g)
    \/ \E w \in Wrappers, r \in Reps : TakeFn(w, r)
    \/ \E w \in Wrappers, r \in Reps : ConstructMoFn(w, r)
    \/ \E w, g \in Wrappers : SwapMoFn(w, g)
    \/ \E w \in Wrappers, r \in Reps : TakeMoFn(w, r)

Spec == Init /\ [][Next]_vars

\* the same program with swap observed store by store
NextSteps ==
    \/ Next
    \/ \E w, g \in Wrappers : SwapEnter(w, g)
    \/ SwapStore
    \/ SwapLeave

SpecSteps == Init /\ [][NextSteps]_vars

\* A second thread calls a mutating operation on one of the two Shared
\* handles of a swap that the first thread has entered and not left.  The
\* wrapper has no lock of its own, so nothing in it delays the call; a lock
\* around both calls would (Running).  The two unsynchronised accesses to
\* ptr_ are a data race, undefined behaviour in either build; the model
\* follows the outcome in which the second thread's whole operation lands
\* between two stores of the first.
Racing(w) ==
    /\ InCall
    /\ ~aborted
    /\ ~ub
    /\ T = "Shared"
    /\ w \in {last.trip.w, last.trip.r}
    /\ wstate[w] = "live"

\* operator=( non_null&& other ) by the second thread:
\* ptr_ = std::move( other.ptr_ )
RacingMoveAssign(w, g) ==
    /\ Racing(w)
    /\ wstate[g] = "live"
    /\ w # g
    /\ ptr_' = [ptr_ EXCEPT ![w] = ptr_[g], ![g] = Null]
    /\ mem' = DestroyRepr(mem, T, ptr_[w])
    /\ ub' = TRUE
    /\ UNCHANGED <<T, build, aborted, rep, wstate, fn_, last>>

\* take( std::move( nn ) ) by the second thread: return std::move( nn.ptr_ )
RacingTake(w, r) ==
    /\ Racing(w)
    /\ ~rep[r].held
    /\ rep' = [rep EXCEPT ![r] = [held |-> TRUE, val |-> ptr_[w]]]
    /\ ptr_' = [ptr_ EXCEPT ![w] = Null]
    /\ wstate' = [wstate EXCEPT ![w] = "taken"]
    /\ ub' = TRUE
    /\ UNCHANGED <<T, build, aborted, mem, fn_, last>>

\* a program of two threads over non_null< std::shared_ptr< int > >
InitShared == Init /\ T = "Shared"

\* calls under a common lock follow one another, calls without it may fall
\* inside a swap
NextRace ==
    \/ \E r \in Reps, x \in {Null} \cup Values : NewRep(r, x)
    \/ \E r \in Reps : DestroyRep(r)
    \/ \E w \in Wrappers, r \in Reps, rv \in BOOLEAN : Construct(w, r, rv)
    \/ \E w, g \in Wrappers : CopyConstruct(w, g)
    \/ \E w, g \in Wrappers : CopyAssign(w, g)
    \/ \E w, g \in Wrappers : MoveConstruct(w, g)
    \/ \E w, g \in Wrappers : MoveAssign(w, g)
    \/ \E w \in Wrappers, r \in Reps : Take(w, r)
    \/ \E w \in Wrappers : Destroy(w)
    \/ \E w \in Wrappers, v \in Values : MakeNonNullShared(w, v)
    \/ \E w, g \in Wrappers : SwapEnter(w, g)
    \/ SwapStore
    \/ SwapLeave
    \/ \E w, g \in Wrappers : RacingMoveAssign(w, g)
    \/ \E w \in Wrappers, r \in Reps : RacingTake(w, r)

SpecRace == InitShared /\ [][NextRace]_vars

\* the same program with the observers of a wrapper
NextObserve ==
    \/ Next
    \/ \E w, g \in Wrappers : Compare(w, g)
    \/ \E w, g \in Wrappers : OwnerBefore(w, g)
    \/ \E w \in Wrappers : NullCompare(w)
    \/ \E w \in Wrappers, x \in Values : InvokeFn(w, x)

SpecObserve == Init /\ [][NextObserve]_vars

\* ------------------------------------------------------------------ claims
StoredNext(w) == IF T \in PtrKinds THEN ptr_'[w] ELSE fn_'[w]

\* C1: every handle (Raw, Shared, Unique) that has been constructed without
\* undefined behaviour and has not been passed to take() holds a
\* representation different from nullptr, whatever operations have run.
C1_NonNullInvariant ==
    \A w \in Wrappers :
        (T \in PtrKinds /\ ~ub /\ wstate[w] = "live") => ptr_[w] # Null

C2_Step ==
    \A w, g \in Wrappers :
        (MoveConstruct(w, g) /\ ptr_[g] # Null)
            => (ptr_'[w] = ptr_[g] /\ ptr_'[g] = ptr_[g])

\* C2: move construction of a Raw or Shared handle from a handle holding a
\* non-null pointee behaves as a copy: the new handle holds the source's
\* pointee and the source still holds it.
C2_MoveConstructIsCopy == [][C2_Step]_vars

C3_Step ==
    \A w, g \in Wrappers :
        (MoveAssign(w, g) /\ ptr_[g] # Null)
            => (ptr_'[w] = ptr_[g] /\ ptr_'[g] = ptr_[g])

\* C3: move assignment b = std::move(a) of a Raw or Shared handle behaves as
\* a copy assignment: b holds the pointee a held, and a still holds that
\* same non-null pointee.
C3_MoveAssignIsCopy == [][C3_Step]_vars

C4_Step ==
    (last'.op = "construct") =>
    (\A w \in Wrappers, r \in Reps, rv \in BOOLEAN :
        (Construct(w, r, rv) /\ rep[r].val = Null)
            => /\ build' \in Builds
               /\ (build' = "checked") =>
                    /\ aborted'
                    /\ wstate'[w] = "none"
                    /\ UNCHANGED <<wstate, ptr_>>)

\* C4: in a checked build, constructing a handle of any category from a
\* null value aborts, and no live handle holding null results.
C4_NullConstructAborts == [][C4_Step]_vars

C4_Witness ==
    /\ build = "checked" /\ T = "Unique"
    /\ aborted /\ last.op = "construct"
    /\ \A w \in Wrappers : wstate[w] = "none"

C5_Step ==
    (last'.op = "try_make_non_null") =>
    (\A w \in Wrappers, r \in Reps, rv \in BOOLEAN :
        TryMakeNonNull(w, r, rv)
            => /\ ~aborted' /\ ~ub'
               /\ (rep[r].val = Null)
                    => (wstate'[w] = "none" /\ UNCHANGED <<ptr_, rep, mem>>)
               /\ (rep[r].val # Null)
                    => (wstate'[w] = "live" /\ ptr_'[w] = rep[r].val)
               /\ (wstate'[w] = "live") => (ptr_'[w] # Null))

\* C5: try_make_non_null(p) yields an absent result (no handle, nothing
\* changed) for a null p, and for any other p a present result whose
\* handle's get() is p's address; it never aborts, never runs into
\* undefined behaviour and never makes a handle that holds null.
C5_TryMakeNonNull == [][C5_Step]_vars

C5_Witness ==
    /\ last.op = "try_make_non_null" /\ T = "Unique" /\ Running
    /\ \A w \in Wrappers : wstate[w] = "none"
    /\ \E r \in Reps : rep[r].held /\ rep[r].val = Null

C6_Leaves(w) ==
    \/ /\ last'.op = "take"
       /\ wstate'[w] = "taken"
       /\ \E r \in Reps :
            ~rep[r].held /\ rep'[r] = [held |-> TRUE, val |-> Stored(w)]
    \/ /\ last'.op = "swap"
       /\ \E g \in Wrappers \ {w} :
            wstate'[g] = "live" /\ StoredNext(g) = Stored(w)
    \/ /\ last'.op = "destroy"
       /\ wstate'[w] = "none"

C6_Step ==
    T \in {"Unique", "MoveOnlyFunction"} =>
        /\ last'.op \notin {"copy_construct", "copy_assign", "move_construct",
                            "move_assign", "convert_construct"}
        /\ \A w \in Wrappers :
             (/\ wstate[w] = "live"
              /\ Stored(w) # Null
              /\ ~(wstate'[w] = "live" /\ StoredNext(w) = Stored(w)))
                 => C6_Leaves(w)

\* C6: a Unique handle and a move-only-callable wrapper are never copied
\* or moved; a non-null representation leaves a live wrapper of these
\* kinds only through take() (into the returned value), through swap (into
\* the other wrapper), or by the wrapper's destruction.
C6_MoveOnlyLeavesByTake == [][C6_Step]_vars

C6_Witness ==
    /\ T = "Unique" /\ last.op = "take"
    /\ \E w \in Wrappers : wstate[w] = "taken" /\ ptr_[w] = Null
    /\ \E r \in Reps : rep[r].held /\ rep[r].val # Null

C7_Step ==
    \A w \in Wrappers, r \in Reps :
        Take(w, r)
            => (rep'[r].val = ptr_[w] /\ mem' = mem /\ rep'[r].val # Null)

\* C7: take(h) on a live handle returns exactly the representation h held
\* (same address, ownership neither added nor released), and that value is
\* never nullptr.
C7_TakeReturnsHeld == [][C7_Step]_vars

\* C8: for every value v, take( make_non_null_unique< T >( v ) ) returns
\* the resource the factory allocated, still holding v, and wrapping it
\* again succeeds and gives a handle that dereferences to v.
C8_RoundTrip ==
    /\ (last.trip.step = 2) =>
         /\ rep[last.trip.r].held
         /\ rep[last.trip.r].val = last.trip.a
         /\ Deref(mem, last.trip.a) = last.trip.v
    /\ (last.trip.step = 3) =>
         /\ Running
         /\ wstate[last.trip.w] = "live"
         /\ ptr_[last.trip.w] = last.trip.a
         /\ ptr_[last.trip.w] # Null
         /\ mem[last.trip.a].owner = "Unique"
         /\ Deref(mem, ptr_[last.trip.w]) = last.trip.v

C8_Witness ==
    /\ last.trip.step = 3 /\ last.trip.v = 42
    /\ wstate[last.trip.w] = "live"

C9_CopyStep ==
    \A w, g \in Wrappers :
        (T = "Shared" /\ CopyConstruct(w, g))
            => /\ ptr_'[w] # Null
               /\ UseCountOf(mem', ptr_'[g]) = UseCountOf(mem, ptr_[g]) + 1
               /\ UseCountOf(mem', ptr_'[w]) = UseCountOf(mem', ptr_'[g])

C9_DestroyStep ==
    \A w, g \in Wrappers :
        (/\ T = "Shared" /\ Destroy(w) /\ wstate[w] = "live"
         /\ g # w /\ wstate[g] = "live"
         /\ ptr_[w] # Null /\ ptr_[g] = ptr_[w])
            => /\ ptr_'[g] # Null
               /\ UseCountOf(mem', ptr_'[g]) = UseCountOf(mem, ptr_[g]) - 1
               /\ Deref(mem', ptr_'[g]) \in Values

\* C9: copy-constructing a Shared handle raises use_count() by exactly one
\* as seen from both handles; destroying one of two copies lowers it by
\* exactly one, and the surviving copy is non-null and dereferenceable.
C9_SharedCount == [][C9_CopyStep /\ C9_DestroyStep]_vars

C10_Step ==
    \A w, g \in Wrappers :
        (Swap(w, g) \/ SwapFn(w, g) \/ SwapMoFn(w, g))
            => /\ StoredNext(w) = Stored(g)
               /\ StoredNext(g) = Stored(w)
               /\ StoredNext(w) # Null
               /\ StoredNext(g) # Null

\* C10: after swap of two live wrappers of the same type (handle of any
\* category, copyable-callable or move-only-callable wrapper) each holds
\* exactly what the other held before, and both are non-null / non-empty.
C10_SwapExchanges == [][C10_Step]_vars
\* C11: at every point inside swap( a, b ) on two live handles, after its
\* start and before its end, both a and b hold a representation different
\* from nullptr.
C11_SwapNoNullInside ==
    InCall => /\ ptr_[last.trip.w] # Null
              /\ ptr_[last.trip.r] # Null

\* C12: two live handles over the same pointee compare equal (== is true,
\* neither is less than the other); two over distinct pointees compare
\* unequal and exactly one of a < b and b < a holds, the one that agrees
\* with the order of the two addresses.
C12_OrderingByAddress ==
    \A w, g \in Wrappers :
        (/\ T \in PtrKinds
         /\ wstate[w] = "live" /\ wstate[g] = "live"
         /\ ptr_[w] # Null /\ ptr_[g] # Null)
            => /\ BothNonNull(w, g) = "ok"
               /\ (ptr_[w] = ptr_[g]) =>
                    /\ operator_eq(w, g)
                    /\ operator_spaceship(w, g) = "equal"
                    /\ operator_spaceship(g, w) = "equal"
               /\ (ptr_[w] # ptr_[g]) =>
                    /\ ~operator_eq(w, g)
                    /\ (operator_spaceship(w, g) = "less")
                         # (operator_spaceship(g, w) = "less")
                    /\ (operator_spaceship(w, g) = "less") <=> (ptr_[w] < ptr_[g])
                    /\ (operator_spaceship(w, g) = "greater")
                         <=> (operator_spaceship(g, w) = "less")

C12_Witness ==
    /\ last.op = "compare" /\ Running
    /\ \E w, g \in Wrappers :
         /\ wstate[w] = "live" /\ wstate[g] = "live"
         /\ ptr_[w] # Null /\ ptr_[g] # Null /\ ptr_[w] # ptr_[g]
         /\ operator_spaceship(w, g) = "less"
         /\ operator_spaceship(g, w) = "greater"

\* C13: for two live Shared handles over the same allocation (a copy, or
\* a converted handle of another type) owner_before is false in both
\* directions; for two over distinct allocations it is true in exactly one
\* direction, whatever values the pointees hold.
C13_OwnerBefore ==
    \A w, g \in Wrappers :
        (/\ T = "Shared"
         /\ wstate[w] = "live" /\ wstate[g] = "live"
         /\ ptr_[w] # Null /\ ptr_[g] # Null)
            => /\ assume_nonnull(ptr_[g]) = "ok"
               /\ (ptr_[w] = ptr_[g]) =>
                    (~owner_before(w, g) /\ ~owner_before(g, w))
               /\ (ptr_[w] # ptr_[g]) =>
                    (owner_before(w, g) # owner_before(g, w))

C13_Witness ==
    /\ last.op = "owner_before" /\ Running
    /\ \E w, g \in Wrappers :
         /\ wstate[w] = "live" /\ wstate[g] = "live"
         /\ ptr_[w] # Null /\ ptr_[g] # Null /\ ptr_[w] # ptr_[g]
         /\ Deref(mem, ptr_[w]) = Deref(mem, ptr_[g])
         /\ owner_before(w, g) /\ ~owner_before(g, w)

\* C14: in every state every live handle, whatever it stores, compares
\* unequal to nullptr (h == nullptr and nullptr == h are false, h != nullptr
\* and nullptr != h are true) and converts to true.
C14_NeverReportsNull ==
    \A w \in Wrappers :
        (T \in PtrKinds /\ wstate[w] = "live")
            => /\ ~operator_eq_nullptr(w)
               /\ operator_bool(w)

C14_Witness ==
    /\ last.op = "null_compare"
    /\ \E w, g \in Wrappers :
         /\ wstate[w] = "live" /\ ptr_[w] = Null /\ ~operator_eq_nullptr(w)
         /\ wstate[g] = "live" /\ ptr_[g] # Null /\ ~operator_eq_nullptr(g)

C15_Step ==
    /\ (last'.op = "construct") =>
       \A w \in Wrappers, r \in Reps, rv \in BOOLEAN :
         (Construct(w, r, rv) /\ rep[r].val # Null)
            => /\ wstate'[w] = "live"
               /\ assume_nonnull(ptr_'[w]) = "ok"
               /\ get(w)' = rep[r].val
               /\ operator_star(w)' = Deref(mem, rep[r].val)
               /\ \A q \in Addr \cup {Null} :
                    operator_eq_ptr(w, q)' <=> (q = rep[r].val)
    /\ (last'.op = "get") =>
       \A w \in Wrappers :
         (Get(w) /\ ptr_[w] # Null)
            => (~aborted' /\ ~ub' /\ get(w)' = get(w))

\* C15: a handle constructed from a non-null p has get() equal to the
\* address p designates, dereferences to the value stored there, and
\* compares equal to a bare pointer q exactly when q is that address;
\* calling get() on it neither aborts nor changes it.
C15_GetDerefEqual == [][C15_Step]_vars

C15_Witness ==
    /\ last.op = "get" /\ Running /\ T = "Raw"
    /\ \E w \in Wrappers, r \in Reps :
         /\ wstate[w] = "live" /\ rep[r].held
         /\ rep[r].val # Null /\ get(w) = rep[r].val
         /\ operator_star(w) = 42
         /\ operator_eq_ptr(w, rep[r].val)

C16_Step ==
    \A w, g \in Wrappers :
        ConvertConstruct(w, g)
            => /\ ~aborted' /\ ~ub'
               /\ wstate'[w] = "live"
               /\ get(w)' = get(g)
               /\ get(w)' # Null
               /\ wstate'[g] = wstate[g]
               /\ ptr_'[g] = ptr_[g]

\* C16: converting construction from a live handle yields a live handle
\* whose get() equals the source's get() and is not nullptr, and leaves
\* the source handle as it was.
C16_ConvertConstruct == [][C16_Step]_vars

C17_Step ==
    (last'.op = "make_non_null") =>
    (\A w \in Wrappers, v \in Values :
        (MakeNonNullUnique(w, v) \/ MakeNonNullShared(w, v))
            => /\ ~aborted' /\ ~ub'
               /\ wstate'[w] = "live"
               /\ get(w)' # Null
               /\ mem[get(w)'].owner = "free"
               /\ operator_star(w)' = v
               /\ (T = "Shared") => (UseCountOf(mem', ptr_'[w]) = 1))

\* C17: make_non_null_unique< T >( v ) and make_non_null_shared< T >( v )
\* never abort; each returns a live handle over a fresh allocation whose
\* get() is not nullptr and that dereferences to v, and the handle
\* make_non_null_shared returns has use_count() 1.
C17_Factories == [][C17_Step]_vars

C17_Witness ==
    /\ last.op = "make_non_null" /\ Running /\ T = "Shared"
    /\ \E w, g \in Wrappers :
         /\ wstate[w] = "live" /\ ptr_[w] # Null
         /\ operator_star(w) = 42 /\ UseCountOf(mem, ptr_[w]) = 1
         /\ wstate[g] = "live" /\ ptr_[g] # Null /\ ptr_[g] # ptr_[w]

C18_Step ==
    (last'.op \in {"move_construct", "move_assign"}) =>
    (\A w, g \in Wrappers :
        (MoveConstructFn(w, g) \/ MoveAssignFn(w, g))
            => /\ ~aborted' /\ ~ub'
               /\ wstate'[w] = "live" /\ wstate'[g] = "live"
               /\ fn_'[w] = fn_[g]
               /\ fn_'[g] = fn_[g]
               /\ fn_'[g] # Null
               /\ \A x \in Values :
                    /\ Invoke(fn_'[w], x) = Invoke(fn_[g], x)
                    /\ Invoke(fn_'[g], x) = Invoke(fn_[g], x))

\* C18: move construction and move assignment of a non_null_function are
\* copies: afterwards the destination invokes the callable the source
\* held, and the source still holds that same callable and is not empty.
C18_FunctionMoveIsCopy == [][C18_Step]_vars

C18_Witness ==
    /\ last.op \in {"move_construct", "move_assign"}
    /\ T = "Function" /\ Running
    /\ \E w, g \in Wrappers :
         /\ w # g /\ wstate[w] = "live" /\ wstate[g] = "live"
         /\ fn_[w] = fn_[g] /\ fn_[w] # Null
         /\ Invoke(fn_[w], 7) = 21

\* C19: invoking a live callable wrapper of either kind with x returns
\* what the wrapped callable returns for x, runs the callable's body
\* exactly once, never reports an empty callable, and neither aborts nor
\* changes the wrapper.
C19_Invocation ==
    (last.op = "invoke") =>
        /\ Running
        /\ wstate[last.trip.w] = "live"
        /\ fn_[last.trip.w] \in Callables
        /\ last.trip.v = Invoke(fn_[last.trip.w], last.trip.a)
        /\ last.trip.v # BadFunctionCall
        /\ last.trip.r = 1

C19_Witness ==
    /\ last.op = "invoke" /\ T = "MoveOnlyFunction"
    /\ last.trip.a = 7 /\ last.trip.v = 21 /\ last.trip.r = 1
    /\ fn_[last.trip.w] = 3

\* C20: take() of a live callable wrapper of either kind returns the
\* non-empty callable the wrapper held; wrapping the returned callable
\* again succeeds, and the new wrapper gives for every argument the result
\* the callable of the original wrapper gives.
C20_CallableRoundTrip ==
    /\ (last.trip.step = 4) =>
         /\ Running
         /\ wstate[last.trip.w] = "taken"
         /\ rep[last.trip.r].held
         /\ rep[last.trip.r].val = last.trip.v
         /\ last.trip.v \in Callables
    /\ (last.trip.step = 5) =>
         /\ Running
         /\ wstate[last.trip.w] = "live"
         /\ fn_[last.trip.w] = last.trip.v
         /\ \A x \in Values :
              /\ operator_call(fn_[last.trip.w], x) = Invoke(last.trip.v, x)
              /\ operator_call(fn_[last.trip.w], x) # BadFunctionCall

C20_Witness ==
    /\ last.trip.step = 5 /\ T = "MoveOnlyFunction"
    /\ wstate[last.trip.w] = "live"
    /\ operator_call(fn_[last.trip.w], 7) = 21

C21_Step ==
    (last'.op \in {"copy_construct", "copy_assign"} /\ T = "Function") =>
    (\A w, g \in Wrappers :
        /\ (CopyConstructFn(w, g) \/ CopyAssignFn(w, g))
              => /\ ~aborted' /\ ~ub'
                 /\ wstate'[w] = "live" /\ wstate'[g] = "live"
                 /\ fn_'[g] = fn_[g]
                 /\ fn_'[w] = fn_[g]
                 /\ \A x \in Values :
                      operator_call(fn_'[w], x) = Invoke(fn_[g], x)
        /\ (CopyAssignFn(w, g) /\ fn_[w] # fn_[g])
              => \A x \in Values :
                   operator_call(fn_'[w], x) # Invoke(fn_[w], x))

\* C21: copy construction and copy assignment of a non_null_function
\* duplicate the stored callable: the destination then invokes the
\* source's callable, the source is unchanged, and after a copy assignment
\* the destination no longer invokes the callable it held before.
C21_FunctionCopy == [][C21_Step]_vars

C21_Witness ==
    /\ last.op = "copy_assign" /\ T = "Function" /\ Running
    /\ \E w, g \in Wrappers :
         /\ w # g /\ wstate[w] = "live" /\ wstate[g] = "live"
         /\ fn_[w] = fn_[g] /\ fn_[w] = 2
         /\ operator_call(fn_[w], 21) = 42

C22_Step ==
    (last'.op = "construct" /\ T \in FnKinds) =>
    (\A w \in Wrappers, r \in Reps, rv \in BOOLEAN :
        ((ConstructFn(w, r, rv) \/ ConstructMoFn(w, r)) /\ rep[r].val = Null)
            => /\ build' \in Builds
               /\ (build' = "checked") =>
                    /\ aborted'
                    /\ wstate'[w] = "none"
                    /\ UNCHANGED <<wstate, fn_>>)

\* C22: in a checked build, constructing a callable wrapper of either kind
\* from an empty callable storage aborts, and no live wrapper holding an
\* empty callable results.
C22_EmptyConstructAborts == [][C22_Step]_vars

C22_Witness ==
    /\ build = "checked" /\ T = "MoveOnlyFunction"
    /\ aborted /\ ~ub /\ last.op = "construct"
    /\ \A w \in Wrappers : wstate[w] = "none" /\ fn_[w] = Null
\* the number of handles and variables that own the allocation a
HoldersOf(ws, p, rp, a) ==
    Cardinality({w \in Wrappers : ws[w] # "none" /\ p[w] = a})
    + Cardinality({r \in Reps : rp[r].held /\ rp[r].val = a})

Holders(a) == HoldersOf(wstate, ptr_, rep, a)

HoldersNext(a) == HoldersOf(wstate', ptr_', rep', a)

\* every Shared allocation counts exactly its owners, and a released one
\* has none
RefCountsConsistent ==
    \A a \in HeapAddr :
        /\ mem[a].owner = "Shared" =>
               /\ mem[a].use_count >= 1
               /\ mem[a].use_count = Holders(a)
        /\ mem[a].owner = "free" => Holders(a) = 0

\* C23: the wrapper does not synchronise assignment, swap and take.  While
\* the calls of two threads on the same Shared handle exclude one another
\* (no data race has happened), every state between two calls has each
\* allocation count exactly its owners, and a swap that has returned has
\* produced exactly what the swap run alone at its entry produces: the first
\* handle holds what the second held, the second what the first held.
\* Without the lock a call can land inside the swap, and the swap then
\* returns in a state that breaks both (C23_Witness).
C23_LockedIsSequential ==
    (T = "Shared" /\ ~ub) =>
        /\ last.op \notin {"swap_enter", "swap_store"} => RefCountsConsistent
        /\ (last.op = "swap" /\ last.trip.w # 0) =>
               /\ ptr_[last.trip.w] = last.trip.v
               /\ ptr_[last.trip.r] = last.trip.a

\* a swap has returned after a racing call landed inside it, leaving a live
\* handle on a released allocation: no order of the two calls gives that
C23_Witness ==
    /\ T = "Shared"
    /\ ub /\ build = "either" /\ ~aborted
    /\ last.op = "swap" /\ last.trip.w # 0
    /\ ~RefCountsConsistent
    /\ \E w \in Wrappers :
         /\ wstate[w] = "live"
         /\ ptr_[w] \in HeapAddr
         /\ mem[ptr_[w]].owner = "free"

\* C24: a std::unique_ptr resource has one owner for as long as it is
\* allocated.  After every step of a program over Unique handles each
\* allocated resource is held by exactly one handle or one extracted
\* variable, a released one by none, and a resource is released only in
\* the step that destroys the handle or variable that held it.
C24_Step ==
    T = "Unique" =>
        \A a \in HeapAddr :
            /\ mem'[a].owner = "Unique" => HoldersNext(a) = 1
            /\ mem'[a].owner = "free" => HoldersNext(a) = 0
            /\ (mem[a].owner = "Unique" /\ mem'[a].owner = "free") =>
                   /\ Holders(a) = 1
                   /\ \/ \E w \in Wrappers :
                            /\ wstate[w] # "none" /\ ptr_[w] = a
                            /\ wstate'[w] = "none"
                      \/ \E r \in Reps :
                            /\ rep[r].held /\ rep[r].val = a
                            /\ ~rep'[r].held

C24_UniqueOwnership == [][C24_Step]_vars

\* one resource has been released with its handle while another, taken out
\* of its handle, is owned by the extracted variable alone
C24_Witness ==
    /\ T = "Unique" /\ ~aborted /\ ~ub
    /\ last.op = "destroy"
    /\ \E a, b \in HeapAddr, r \in Reps, w \in Wrappers :
         /\ mem[a].owner = "free"
         /\ mem[b].owner = "Unique"
         /\ rep[r].held /\ rep[r].val = b
         /\ wstate[w] = "taken" /\ ptr_[w] = Null
         /\ Holders(b) = 1

\* C25: take() moves the representation out of the handle.  On a Shared
\* handle the use_count of every allocation is the same before and after
\* the call, the result is what the handle held, every allocation has as
\* many owners as before, and the consumed handle owns nothing: destroying
\* it would change no count.  On a Raw handle the result is the stored
\* address and the handle still stores that address.
C25_Step ==
    (last'.op = "take" /\ T \in {"Raw", "Shared"}) =>
    (\A w \in Wrappers, r \in Reps :
        Take(w, r) =>
            /\ rep'[r] = [held |-> TRUE, val |-> ptr_[w]]
            /\ T = "Shared" =>
                  /\ \A a \in HeapAddr :
                        /\ UseCountOf(mem', a) = UseCountOf(mem, a)
                        /\ HoldersNext(a) = Holders(a)
                  /\ UseCountOf(mem', rep'[r].val) = UseCountOf(mem, ptr_[w])
                  /\ DestroyRepr(mem', T, ptr_'[w]) = mem'
            /\ T = "Raw" => ptr_'[w] = ptr_[w])

C25_TakeTransfers == [][C25_Step]_vars

\* take() has consumed a Shared handle over an allocation that a second
\* handle shares: the count is still two, held by the result and the other
\* handle
C25_Witness ==
    /\ last.op = "take" /\ T = "Shared" /\ Running
    /\ \E w, g \in Wrappers, r \in Reps :
         /\ wstate[w] = "taken" /\ ptr_[w] = Null
         /\ wstate[g] = "live"
         /\ rep[r].held /\ rep[r].val \in HeapAddr
         /\ ptr_[g] = rep[r].val
         /\ UseCountOf(mem, rep[r].val) = 2

\* C26: swap( a, b ) on Shared handles only exchanges what the two handles
\* hold.  The use_count of every allocation, every other handle, every
\* variable and the lifetime of every handle are the same before and after;
\* a holds what b held and b what a held; a handle swapped with itself holds
\* what it held.
C26_Step ==
    (last'.op = "swap" /\ T = "Shared") =>
    (\A w, g \in Wrappers :
        Swap(w, g) =>
            /\ \A a \in HeapAddr :
                  /\ UseCountOf(mem', a) = UseCountOf(mem, a)
                  /\ mem'[a] = mem[a]
                  /\ HoldersNext(a) = Holders(a)
            /\ \A h \in Wrappers \ {w, g} : ptr_'[h] = ptr_[h]
            /\ wstate' = wstate
            /\ rep' = rep
            /\ ptr_'[w] = ptr_[g]
            /\ ptr_'[g] = ptr_[w]
            /\ (w = g) => ptr_' = ptr_)

C26_SwapFrame == [][C26_Step]_vars

\* two Shared handles over different allocations have been swapped, each
\* allocation still with one owner (test "member swap - shared_ptr")
C26_Witness ==
    /\ last.op = "swap" /\ T = "Shared" /\ Running
    /\ \E w, g \in Wrappers :
         /\ w # g
         /\ wstate[w] = "live" /\ wstate[g] = "live"
         /\ ptr_[w] \in HeapAddr /\ ptr_[g] \in HeapAddr
         /\ ptr_[w] # ptr_[g]
         /\ Deref(mem, ptr_[w]) = 7 /\ Deref(mem, ptr_[g]) = 42
         /\ UseCountOf(mem, ptr_[w]) = 1 /\ UseCountOf(mem, ptr_[g]) = 1

\* C27: copy assignment b = a between Shared handles.  Over different
\* allocations the use_count of a's allocation rises by one, that of b's
\* former allocation falls by one and the allocation is released exactly
\* when it was the last owner, no other allocation changes, a holds what it
\* held and b holds the same.  A self-assignment changes no count and no
\* handle, so a handle over an allocation stays non-null.
C27_Step ==
    (last'.op = "copy_assign" /\ T = "Shared") =>
    (\A b, a \in Wrappers :
        CopyAssign(b, a) =>
            /\ (ptr_[a] # Null /\ ptr_[b] # Null /\ ptr_[a] # ptr_[b]) =>
                  /\ UseCountOf(mem', ptr_[a]) = UseCountOf(mem, ptr_[a]) + 1
                  /\ UseCountOf(mem', ptr_[b]) = UseCountOf(mem, ptr_[b]) - 1
                  /\ (mem'[ptr_[b]].owner = "free") <=>
                         (UseCountOf(mem', ptr_[b]) = 0)
                  /\ mem[ptr_[b]].owner = "Shared"
                  /\ \A c \in HeapAddr \ {ptr_[a], ptr_[b]} : mem'[c] = mem[c]
                  /\ ptr_'[a] = ptr_[a]
                  /\ ptr_'[b] = ptr_[a]
                  /\ wstate' = wstate
            /\ (a = b) =>
                  /\ mem' = mem
                  /\ ptr_' = ptr_
                  /\ (ptr_[a] # Null) => ptr_'[a] # Null)

C27_CopyAssignCounts == [][C27_Step]_vars

\* b = a has run between two handles: both now share one allocation with
\* a variable, three owners in all, and the other allocation is released
C27_Witness ==
    /\ last.op = "copy_assign" /\ T = "Shared" /\ Running
    /\ \E a, b \in Wrappers, r \in Reps, c \in HeapAddr :
         /\ a # b
         /\ wstate[a] = "live" /\ wstate[b] = "live"
         /\ ptr_[a] \in HeapAddr /\ ptr_[b] = ptr_[a]
         /\ rep[r].held /\ rep[r].val = ptr_[a]
         /\ UseCountOf(mem, ptr_[a]) = 3
         /\ c # ptr_[a] /\ mem[c].owner = "free"

====
